---- MODULE Spec2Model ----
(***************************************************************************)
(* Operations Copilot: incremental invoice ingestion into the master log   *)
(* (modular_scripts/bulk_processor.py), the two-pass anomaly scan over it  *)
(* (modular_scripts/analysis/anomaly_detector.py) and the dashboard's      *)
(* refresh pipeline that runs one after the other (app.py).                *)
(***************************************************************************)
EXTENDS Integers, Sequences, FiniteSets, TLC

(* ------------------------------ bounds --------------------------------- *)
\* number of distinct PDF documents that can ever be dropped in data/
MaxDocs == 3
\* longest ledger (data rows) the detector is applied to in DetectSpec
MaxRows == 3
\* ingestion runs start only while the log is shorter than this (a log that lost its
\* header grows with every run)
MaxLogLines == 4

(* --------------------------- value universes --------------------------- *)
FileNames == <<"a.pdf", "b.pdf", "c.pdf", "d.pdf", "e.pdf">>
Files == {FileNames[i] : i \in 1..MaxDocs}

\* text of the total_amount cell and the number pd.to_numeric reads from it
Numerals == [s \in {"100", "120", "121"} |->
               CASE s = "100" -> 100 [] s = "120" -> 120 [] s = "121" -> 121]
\* text of the date cell and the day pd.to_datetime reads from it
DateOrdinals == [s \in {"2024-01-05", "2024-02-05"} |->
                   IF s = "2024-01-05" THEN 1 ELSE 2]

\* the header line DataFrame.to_csv writes: the column names, source_file first
HeaderLine == [source_file |-> "source_file", vendor_name |-> "vendor_name",
               total_amount |-> "total_amount", date |-> "date"]

\* what a document can turn out to be when the loop body handles it
Outcomes == {"ok", "raise", "empty_text", "gemini_error"}

\* structured records the pipeline's documents carry (CSV cell texts)
PipelineFields == [vendor_name : {"Acme"}, total_amount : {"100", "120", "121"}, date : {""}]
                    \cup {[vendor_name |-> "", total_amount |-> "100", date |-> ""]}
DocContents == [outcome : {"ok"}, fields : PipelineFields]
                 \cup [outcome : Outcomes \ {"ok"},
                       fields : {[vendor_name |-> "", total_amount |-> "", date |-> ""]}]

NoDoc == [outcome |-> "absent", fields |-> [vendor_name |-> "", total_amount |-> "", date |-> ""]]

VARIABLES
  secretKey,       \* st.secrets has GEMINI_API_KEY
  envKey,          \* os.environ has GEMINI_API_KEY
  docs,            \* data/*.pdf: file name -> what the document is (NoDoc: not there)
  logExists,       \* os.path.exists(LOG_FILE)
  logLines,        \* the lines of master_ops_log.csv
  reportExists,    \* os.path.exists(REPORT_FILE)
  report,          \* the records of anomalies_report.json
  pc,              \* "idle" | "loop" (inside bulk_process_invoices) | "detect" (pipeline's 2nd step)
  caller,          \* "cli" (python -m ...) | "app" (run_processing_pipeline)
  processed_files, \* bulk_process_invoices local
  pdf_files,       \* bulk_process_invoices local: the glob's files not yet iterated
  new_records,     \* bulk_process_invoices local
  extracted,       \* files extract_text_from_pdf was called on in the current/last run
  ingestReturn,    \* what the last bulk_process_invoices call returned / printed last
  uiStatus,        \* the banner run_processing_pipeline showed last
  anomalies,       \* detect_financial_anomalies local: final_anomalies_df (with index)
  detectStatus,    \* which return of detect_financial_anomalies the last run took
  lastOp,          \* history: the run that completed last
  prevLog,         \* history: logLines when the last run started
  quietRuns        \* history: completed ingestion runs since the directory last changed

vars == <<secretKey, envKey, docs, logExists, logLines, reportExists, report, pc, caller,
          processed_files, pdf_files, new_records, extracted, ingestReturn, uiStatus,
          anomalies, detectStatus, lastOp, prevLog, quietRuns>>

envVars == <<secretKey, envKey>>
ingestLocals == <<processed_files, pdf_files, new_records, extracted>>
detectVars == <<reportExists, report, anomalies, detectStatus>>

(* ------------------------------ helpers -------------------------------- *)
Min(a, b) == IF a < b THEN a ELSE b

RECURSIVE SeqSum(_)
SeqSum(s) == IF s = <<>> THEN 0 ELSE Head(s) + SeqSum(Tail(s))

IsPrefix(s, t) == Len(s) <= Len(t) /\ SubSeq(t, 1, Len(s)) = s

\* pd.read_csv: the first line names the columns, the rest are the rows
Columns(lines) == {lines[1].source_file, lines[1].vendor_name,
                   lines[1].total_amount, lines[1].date}
DataRows(lines) == Tail(lines)

\* get_processed_files(log_path)
get_processed_files(exists, lines) ==
  IF ~exists THEN {}
  ELSE IF lines = <<>> THEN {}                          \* EmptyDataError
  ELSE IF "source_file" \in Columns(lines)
       THEN {DataRows(lines)[i].source_file : i \in 1..Len(DataRows(lines))}
       ELSE {}

\* api_key resolution of bulk_process_invoices
ApiKeyFound == secretKey \/ envKey

(* ---------------------- bulk_processor.py ------------------------------ *)
\* the CSV line to_csv writes for a staged record (source_file moved first)
CsvLine(filename, fields) ==
  [source_file |-> filename, vendor_name |-> fields.vendor_name,
   total_amount |-> fields.total_amount, date |-> fields.date]

\* the write with mode='w': the file is replaced by the new records
to_csv_overwrite(lines, header, records) == <<HeaderLine>> \o records

\* new_df.to_csv(LOG_FILE, mode='a', header=header, index=False)
to_csv_append(lines, header, records) ==
  lines \o (IF header THEN <<HeaderLine>> ELSE <<>>) \o records

\* the loop body without the check for the adapter's error record
LoopBody_NoErrorCheck(filename, d) ==
  CASE d.outcome = "raise"        -> <<>>
    [] d.outcome = "empty_text"   -> <<>>
    [] d.outcome = "gemini_error" -> <<CsvLine(filename, d.fields)>>
    [] d.outcome = "ok"           -> <<CsvLine(filename, d.fields)>>

\* the try block of the loop: what one new file adds to new_records
LoopBody(filename, d) ==
  CASE d.outcome = "raise"        -> <<>>   \* extract_text_from_pdf raised: except Exception
    [] d.outcome = "empty_text"   -> <<>>   \* not raw_text.strip(): continue
    [] d.outcome = "gemini_error" -> <<>>   \* 'error' in structured_data: continue
    [] d.outcome = "ok"           -> <<CsvLine(filename, d.fields)>>

\* a PDF is dropped into data/ (its content, hence what the adapters make of it, is fixed)
\* (file names are interchangeable, so names are handed out in order and the glob
\* lists them in that order: every order of arrival is still some order of names)
AddDocument(f, d) ==
  /\ pc = "idle"
  /\ docs[f] = NoDoc
  /\ \A i \in 1..MaxDocs : FileNames[i] = f => \A j \in 1..(i - 1) : docs[FileNames[j]] # NoDoc
  /\ docs' = [docs EXCEPT ![f] = d]
  /\ quietRuns' = 0
  /\ lastOp' = "add"
  /\ UNCHANGED <<envVars, logExists, logLines, pc, caller, ingestLocals, ingestReturn,
                 uiStatus, detectVars, prevLog>>

\* glob.glob(os.path.join(DATA_DIR, '*.pdf'))
glob == SelectSeq(SubSeq(FileNames, 1, MaxDocs), LAMBDA f : docs[f] # NoDoc)

\* bulk_process_invoices, steps 1-3: credential check, pre-scan of the log, glob
StartIngest(who) ==
  /\ pc = "idle"
  /\ Len(logLines) <= MaxLogLines
  /\ caller' = who
  /\ prevLog' = logLines
  /\ extracted' = {}
  /\ new_records' = <<>>
  /\ IF ~ApiKeyFound
       THEN /\ ingestReturn' = [value |-> "None", exit |-> 0,
                                 printed |-> "ERROR: GEMINI_API_KEY not found"]
            /\ pc' = IF who = "app" THEN "detect" ELSE "idle"
            /\ lastOp' = "ingest"
            /\ quietRuns' = Min(quietRuns + 1, 2)
            /\ UNCHANGED <<processed_files, pdf_files>>
       ELSE /\ processed_files' = get_processed_files(logExists, logLines)
            /\ pdf_files' = glob
            /\ pc' = "loop"
            /\ UNCHANGED <<ingestReturn, lastOp, quietRuns>>
  /\ anomalies' = <<>>
  /\ detectStatus' = "none"
  /\ uiStatus' = ""
  /\ UNCHANGED <<envVars, docs, logExists, logLines, reportExists, report>>

\* one iteration of the main processing loop, for the file the glob yields next
ProcessFile(f) ==
  /\ pc = "loop"
  /\ pdf_files # <<>>
  /\ f = Head(pdf_files)
  /\ pdf_files' = Tail(pdf_files)
  /\ IF f \in processed_files
       THEN UNCHANGED <<extracted, new_records>>
       ELSE /\ extracted' = extracted \cup {f}
            /\ new_records' = new_records \o LoopBody(f, docs[f])
  /\ UNCHANGED <<envVars, docs, logExists, logLines, reportExists, report, pc, caller,
                 processed_files, ingestReturn, uiStatus, anomalies, detectStatus,
                 lastOp, prevLog, quietRuns>>

\* step 8, after the loop: one append of everything staged, then return
SaveRecords ==
  /\ pc = "loop"
  /\ pdf_files = <<>>
  /\ IF new_records # <<>>
       THEN /\ logLines' = to_csv_append(logLines, ~logExists, new_records)
            /\ logExists' = TRUE
       ELSE UNCHANGED <<logExists, logLines>>
  /\ ingestReturn' = [value |-> "None", exit |-> 0, printed |-> "Bulk processing complete."]
  /\ pc' = IF caller = "app" THEN "detect" ELSE "idle"
  /\ lastOp' = "ingest"
  /\ quietRuns' = Min(quietRuns + 1, 2)
  /\ processed_files' = {}
  /\ new_records' = <<>>
  /\ UNCHANGED <<envVars, docs, caller, pdf_files, extracted, uiStatus, detectVars, prevLog>>

(* ------------------- analysis/anomaly_detector.py ---------------------- *)
\* the default of detect_financial_anomalies(spike_threshold), in percent
SpikeThresholdPct == 20

\* the vendor keys in the order groupby('vendor_name') yields its groups
VendorOrder == <<"Acme", "Bolt">>

\* pd.read_csv(LOG_FILE): the data rows, each with its index label
read_csv(lines) ==
  [i \in 1..Len(DataRows(lines)) |->
     [idx |-> i - 1, source_file |-> DataRows(lines)[i].source_file,
      vendor_name |-> DataRows(lines)[i].vendor_name,
      total_amount |-> DataRows(lines)[i].total_amount,
      date |-> DataRows(lines)[i].date]]

\* a cell pd.to_numeric(errors='coerce') turns into NaN
CoercesToNaN(cell) == cell \notin DOMAIN Numerals
\* a vendor_name cell read_csv reads as NaN
VendorIsNaN(cell) == cell = ""

\* the cleaning with dropna(subset=['total_amount']) only
dropna_amount_only(df) ==
  LET kept == SelectSeq(df, LAMBDA r : ~CoercesToNaN(r.total_amount))
  IN [i \in 1..Len(kept) |-> [kept[i] EXCEPT !.total_amount = Numerals[@]]]

\* to_numeric on total_amount, then dropna(subset=['total_amount', 'vendor_name'])
dropna(df) ==
  LET kept == SelectSeq(df, LAMBDA r : ~CoercesToNaN(r.total_amount)
                                         /\ ~VendorIsNaN(r.vendor_name))
  IN [i \in 1..Len(kept) |-> [kept[i] EXCEPT !.total_amount = Numerals[@]]]

\* the mask of duplicated(keep='first'): the first of each group is left out
duplicated_keep_first(df, i) ==
  \E j \in 1..(i - 1) : /\ df[j].vendor_name = df[i].vendor_name
                        /\ df[j].total_amount = df[i].total_amount

\* the mask of duplicated(subset=['total_amount'], keep=False): the vendor is ignored
duplicated_amount_only(df, i) ==
  Cardinality({j \in 1..Len(df) : df[j].total_amount = df[i].total_amount}) >= 2

\* df.duplicated(subset=['vendor_name', 'total_amount'], keep=False), as a mask on positions
duplicated(df, i) ==
  Cardinality({j \in 1..Len(df) : /\ df[j].vendor_name = df[i].vendor_name
                                  /\ df[j].total_amount = df[i].total_amount}) >= 2

RECURSIVE DuplicateRows(_, _)
\* df[df.duplicated(...)]: the rows the mask selects from position i on, in the frame's order
DuplicateRows(df, i) ==
  IF i > Len(df) THEN <<>>
  ELSE (IF duplicated(df, i) THEN <<df[i]>> ELSE <<>>) \o DuplicateRows(df, i + 1)

Entry(r, type, details) ==
  [idx |-> r.idx, source_file |-> r.source_file, vendor_name |-> r.vendor_name,
   total_amount |-> r.total_amount, date |-> r.date,
   anomaly_type |-> type, details |-> details]

\* step 2: the duplicates frame with its anomaly_type column
DuplicateEntries(df) ==
  LET duplicates == DuplicateRows(df, 1)
  IN [i \in 1..Len(duplicates) |-> Entry(duplicates[i], "Potential Duplicate Billing", <<>>)]

\* pd.to_datetime(errors='coerce') and the place sort_values gives the result:
\* parsed dates ascending, NaT after every date (na_position='last')
NaTRank == 1 + Cardinality(DOMAIN DateOrdinals)
DateRank(cell) == IF cell \in DOMAIN DateOrdinals THEN DateOrdinals[cell] ELSE NaTRank

RECURSIVE InsertByDate(_, _)
InsertByDate(sorted, r) ==
  IF sorted = <<>> THEN <<r>>
  ELSE IF DateRank(Head(sorted).date) <= DateRank(r.date)
       THEN <<Head(sorted)>> \o InsertByDate(Tail(sorted), r)
       ELSE <<r>> \o sorted

RECURSIVE SortByDate(_)
\* the stable sort of one vendor's rows by date
SortByDate(rows) ==
  IF rows = <<>> THEN <<>>
  ELSE InsertByDate(SortByDate(SubSeq(rows, 1, Len(rows) - 1)), rows[Len(rows)])

\* one group of df.sort_values(by=['vendor_name', 'date']).groupby('vendor_name')
Group(df, vendor) == SortByDate(SelectSeq(df, LAMBDA r : r.vendor_name = vendor))

Amounts(rows) == [i \in 1..Len(rows) |-> rows[i].total_amount]

\* the comparison with >= in place of >
IsSpike_NotStrict(latest, sum, n) == latest * n * 100 >= sum * (100 + SpikeThresholdPct)

\* latest > avg_cost * (1 + spike_threshold), avg_cost = sum / n, in whole numbers
IsSpike(latest, sum, n) == latest * n * 100 > sum * (100 + SpikeThresholdPct)

\* the body of the groupby loop: the spike entry of one group, if any
GroupSpike(group) ==
  IF Len(group) > 1
    THEN LET prior == SubSeq(group, 1, Len(group) - 1)
             latest_entry == group[Len(group)]
             sum == SeqSum(Amounts(prior))
         IN IF IsSpike(latest_entry.total_amount, sum, Len(prior))
              THEN <<Entry(latest_entry, "Price Spike (>20%)",
                           <<latest_entry.total_amount, sum, Len(prior)>>)>>
              ELSE <<>>
    ELSE <<>>

RECURSIVE SpikeEntriesFrom(_, _)
SpikeEntriesFrom(df, k) ==
  IF k > Len(VendorOrder) THEN <<>>
  ELSE GroupSpike(Group(df, VendorOrder[k])) \o SpikeEntriesFrom(df, k + 1)

\* step 3: the spikes list
SpikeEntries(df) == SpikeEntriesFrom(df, 1)

\* pd.concat(all_anomalies, ignore_index=True)
FinalAnomalies(df) == DuplicateEntries(df) \o SpikeEntries(df)

\* final_anomalies_df.to_json(REPORT_FILE, orient='records'): the index is not written
to_json(final) ==
  [i \in 1..Len(final) |->
     [source_file |-> final[i].source_file, vendor_name |-> final[i].vendor_name,
      total_amount |-> final[i].total_amount, date |-> final[i].date,
      anomaly_type |-> final[i].anomaly_type, details |-> final[i].details]]

\* which return detect_financial_anomalies takes on this log
DetectOutcome(exists, lines) ==
  IF ~exists THEN "no_log"
  ELSE IF lines = <<>> THEN "empty_log"                       \* EmptyDataError
  ELSE IF "total_amount" \notin Columns(lines) \/ "vendor_name" \notin Columns(lines)
       THEN "parse_error"                                     \* KeyError, except Exception
  ELSE IF FinalAnomalies(dropna(read_csv(lines))) = <<>> THEN "no_anomalies"
  ELSE "saved"

\* run_processing_pipeline: subprocess.run(check=True) raises CalledProcessError on a
\* non-zero exit status only; the captured output is not looked at
PipelineBanner(ingestExit, detectExit) ==
  IF ingestExit = 0 /\ detectExit = 0
    THEN "Data refreshed successfully!"
    ELSE "An error occurred during data processing pipeline."

\* detect_financial_anomalies(), run on its own or as the pipeline's second step
DetectRun ==
  /\ pc \in {"idle", "detect"}
  /\ prevLog' = logLines
  /\ detectStatus' = DetectOutcome(logExists, logLines)
  /\ IF detectStatus' = "saved"
       THEN /\ anomalies' = FinalAnomalies(dropna(read_csv(logLines)))
            /\ report' = to_json(anomalies')
            /\ reportExists' = TRUE
       ELSE /\ anomalies' = <<>>
            /\ UNCHANGED <<report, reportExists>>
  /\ lastOp' = "detect"
  /\ pc' = "idle"
  /\ uiStatus' = IF pc = "detect" THEN PipelineBanner(ingestReturn.exit, 0) ELSE uiStatus
  /\ UNCHANGED <<envVars, docs, logExists, logLines, caller, ingestLocals, ingestReturn,
                 quietRuns>>

(* ---------------------------- specification ---------------------------- *)
Init ==
  /\ secretKey \in BOOLEAN
  /\ envKey \in BOOLEAN
  /\ docs = [f \in Files |-> NoDoc]
  /\ logExists \in BOOLEAN          \* missing, or present and empty
  /\ logLines = <<>>
  /\ reportExists = FALSE
  /\ report = <<>>
  /\ pc = "idle"
  /\ caller = "cli"
  /\ processed_files = {}
  /\ pdf_files = <<>>
  /\ new_records = <<>>
  /\ extracted = {}
  /\ ingestReturn = [value |-> "None", exit |-> 0, printed |-> ""]
  /\ uiStatus = ""
  /\ anomalies = <<>>
  /\ detectStatus = "none"
  /\ lastOp = "none"
  /\ prevLog = <<>>
  /\ quietRuns = 0

Next ==
  \/ \E f \in Files, d \in DocContents : AddDocument(f, d)
  \/ \E who \in {"cli", "app"} : StartIngest(who)
  \/ \E f \in Files : ProcessFile(f)
  \/ SaveRecords
  \/ DetectRun

Spec == Init /\ [][Next]_vars

(* ---- the detector applied to arbitrary ledgers of at most MaxRows rows ---- *)
DetectFields ==
  [vendor_name : {"Acme", "Bolt"}, total_amount : {"100", "120", "121"},
   date : {"2024-01-05", "2024-02-05", ""}]
    \cup {[vendor_name |-> "", total_amount |-> "100", date |-> ""],
          [vendor_name |-> "Acme", total_amount |-> "n/a", date |-> ""]}

LedgerOf(fields) == <<HeaderLine>> \o [i \in 1..Len(fields) |-> CsvLine(FileNames[i], fields[i])]

DetectInit ==
  /\ secretKey = FALSE
  /\ envKey = TRUE
  /\ docs = [f \in Files |-> NoDoc]
  /\ logExists = TRUE
  /\ \E n \in 0..MaxRows : \E fields \in [1..n -> DetectFields] : logLines = LedgerOf(fields)
  /\ reportExists = FALSE
  /\ report = <<>>
  /\ pc = "idle"
  /\ caller = "cli"
  /\ processed_files = {}
  /\ pdf_files = <<>>
  /\ new_records = <<>>
  /\ extracted = {}
  /\ ingestReturn = [value |-> "None", exit |-> 0, printed |-> ""]
  /\ uiStatus = ""
  /\ anomalies = <<>>
  /\ detectStatus = "none"
  /\ lastOp = "none"
  /\ prevLog = <<>>
  /\ quietRuns = 0

DetectNext == DetectRun

DetectSpec == DetectInit /\ [][DetectNext]_vars

(* ============================ properties ================================ *)
\* the records of the ledger file: every line that is not the header line
LedgerRecords(lines) == SelectSeq(lines, LAMBDA l : l # HeaderLine)

\* what the run that just returned added to the log
Appended == LedgerRecords(SubSeq(logLines, Len(prevLog) + 1, Len(logLines)))

CountOf(rows, f) == Cardinality({i \in 1..Len(rows) : rows[i].source_file = f})

IngestReturned == lastOp = "ingest" /\ pc # "loop"

\* C1: when bulk_process_invoices has run twice in a row on an unchanged directory
\* (missing, empty or populated log at the start), the second run has appended nothing.
C1_SecondRunAppendsNothing ==
  (IngestReturned /\ quietRuns = 2) => logLines = prevLog

\* C2: no two records of the ledger carry the same source_file, whatever runs and
\* additions of documents came before.
C2_NoTwoRowsForOneSourceFile ==
  \A i, j \in 1..Len(LedgerRecords(logLines)) :
    i # j => LedgerRecords(logLines)[i].source_file # LedgerRecords(logLines)[j].source_file

\* C3: with the credential in neither the secrets store nor the environment, a run
\* leaves the ledger unchanged, calls no adapter, does not fail, and hands its caller
\* something other than what a successful run hands it (the return value, or for the
\* dashboard's pipeline the banner it ends up showing).
C3_MissingCredentialIsReported ==
  /\ (IngestReturned /\ ~ApiKeyFound) =>
        /\ logLines = prevLog
        /\ extracted = {}
        /\ ingestReturn.exit = 0
        /\ ingestReturn.value # "None"
  /\ (lastOp = "detect" /\ caller = "app" /\ uiStatus # "" /\ ~ApiKeyFound) =>
        uiStatus # "Data refreshed successfully!"

\* the part of C3 the code does keep: nothing appended, no adapter called, no failure
C3_MissingCredentialAppendsNothing ==
  (IngestReturned /\ ~ApiKeyFound) =>
     logLines = prevLog /\ extracted = {} /\ ingestReturn.exit = 0

\* the candidate set of the run that just returned: the directory minus the files the
\* log named when the run started
Candidates ==
  {f \in Files : docs[f] # NoDoc} \ get_processed_files(TRUE, prevLog)

\* C4: after a run, every candidate whose extraction and structuring succeeded has
\* exactly one appended record, which is its full record, and every candidate that
\* raised, had no text or got an adapter error has none, whatever the rest of the batch did.
C4_FailuresAreIsolated ==
  (IngestReturned /\ ApiKeyFound) =>
     /\ extracted = Candidates
     /\ \A f \in Files :
          CountOf(Appended, f) = IF f \in Candidates /\ docs[f].outcome = "ok" THEN 1 ELSE 0
     /\ \A i \in 1..Len(Appended) :
          Appended[i] = CsvLine(Appended[i].source_file, docs[Appended[i].source_file].fields)

C4_Witness ==
  /\ IngestReturned /\ ApiKeyFound
  /\ \E f, g, h \in Candidates :
       /\ docs[f].outcome = "ok" /\ docs[g].outcome = "raise" /\ docs[h].outcome = "gemini_error"
       /\ CountOf(Appended, f) = 1

\* the report a detection run over this log is to leave behind
FreshReport(exists, lines) ==
  IF DetectOutcome(exists, lines) \in {"no_log", "empty_log", "parse_error"}
    THEN <<>>
    ELSE to_json(FinalAnomalies(dropna(read_csv(lines))))

\* C5: after every detection run the persisted report is exactly the anomalies of the
\* ledger as it was at that run (empty when nothing is flagged); nothing of an earlier
\* report survives.
C5_ReportIsRecomputed ==
  lastOp = "detect" => report = FreshReport(logExists, logLines)

\* C10: every step leaves the old log as a prefix of the new one, and a detection run
\* leaves the log exactly as it was.
C10_AppendOnly ==
  [][/\ IsPrefix(logLines, logLines')
     /\ (lastOp' = "detect" => logLines' = logLines)]_vars

C10_Witness ==
  /\ IngestReturned
  /\ prevLog # <<>>
  /\ Len(logLines) > Len(prevLog)
  /\ \E i \in 1..Len(prevLog) : VendorIsNaN(prevLog[i].vendor_name)

(* ------------- the detector's passes (checked under DetectSpec) ---------- *)
\* the last detection run got as far as the two passes
DetectComputed == lastOp = "detect" /\ detectStatus \in {"saved", "no_anomalies"}

\* the cleaned frame the last detection run worked on
Cleaned == dropna(read_csv(logLines))

Duplicate == "Potential Duplicate Billing"
PriceSpike == "Price Spike (>20%)"

\* positions of the entries of one kind in the computed anomalies
EntriesOfType(type) == {k \in 1..Len(anomalies) : anomalies[k].anomaly_type = type}
FlaggedIdx(type) == {anomalies[k].idx : k \in EntriesOfType(type)}

SameKey(r, q) == r.vendor_name = q.vendor_name /\ r.total_amount = q.total_amount

\* C6: a cleaned record is flagged as duplicate billing exactly when some other cleaned
\* record has the same (vendor_name, total_amount); every member of such a group is
\* flagged once, the earliest included, and nothing outside a group is.
C6_DuplicateIsGroupMembership ==
  DetectComputed =>
    /\ \A i \in 1..Len(Cleaned) :
         (Cleaned[i].idx \in FlaggedIdx(Duplicate))
           <=> (\E j \in 1..Len(Cleaned) : j # i /\ SameKey(Cleaned[i], Cleaned[j]))
    /\ Cardinality(EntriesOfType(Duplicate)) = Cardinality(FlaggedIdx(Duplicate))
    /\ FlaggedIdx(Duplicate) \subseteq {Cleaned[i].idx : i \in 1..Len(Cleaned)}

C6_Witness ==
  /\ DetectComputed
  /\ \E i, j, k \in 1..Len(Cleaned) :
       /\ i < j /\ k # i /\ k # j
       /\ SameKey(Cleaned[i], Cleaned[j])
       /\ Cleaned[k].vendor_name = Cleaned[i].vendor_name
       /\ Cleaned[k].total_amount # Cleaned[i].total_amount
       /\ {Cleaned[i].idx, Cleaned[j].idx} \subseteq FlaggedIdx(Duplicate)
       /\ Cleaned[k].idx \notin FlaggedIdx(Duplicate)

\* positions of one vendor's records in the cleaned frame
VendorRows(v) == {i \in 1..Len(Cleaned) : Cleaned[i].vendor_name = v}

\* q comes before p in the vendor's date-ascending sequence: earlier date, or the same
\* date (or both undated) and earlier in the ledger; undated records follow dated ones
Precedes(q, p) ==
  \/ DateRank(Cleaned[q].date) < DateRank(Cleaned[p].date)
  \/ DateRank(Cleaned[q].date) = DateRank(Cleaned[p].date) /\ q < p

LatestOf(v) == CHOOSE p \in VendorRows(v) : \A q \in VendorRows(v) \ {p} : Precedes(q, p)

RECURSIVE AmountSum(_)
AmountSum(S) ==
  IF S = {} THEN 0
  ELSE LET i == CHOOSE x \in S : TRUE IN Cleaned[i].total_amount + AmountSum(S \ {i})

SpikeEntriesOfVendor(v) ==
  {k \in EntriesOfType(PriceSpike) : anomalies[k].vendor_name = v}

\* C7: per vendor the spike pass flags at most one record; none for a vendor with a
\* single record; otherwise only the last record of the vendor's date-ascending
\* sequence, and that one exactly when its amount is strictly above
\* mean(earlier records) * (1 + threshold): equal to the bound is not flagged.
C7_SpikeIsLatestAboveTrailingMean ==
  DetectComputed =>
    \A v \in {Cleaned[i].vendor_name : i \in 1..Len(Cleaned)} :
      /\ Cardinality(SpikeEntriesOfVendor(v)) <= 1
      /\ Cardinality(VendorRows(v)) < 2 => SpikeEntriesOfVendor(v) = {}
      /\ Cardinality(VendorRows(v)) >= 2 =>
           LET p == LatestOf(v)
               earlier == VendorRows(v) \ {p}
           IN /\ \A k \in SpikeEntriesOfVendor(v) : anomalies[k].idx = Cleaned[p].idx
              /\ (SpikeEntriesOfVendor(v) # {})
                   <=> (Cleaned[p].total_amount * 100 * Cardinality(earlier)
                          > AmountSum(earlier) * (100 + SpikeThresholdPct))

\* prior [100, 100] by date, the 121 dated last but not last in the ledger: flagged
C7_Witness ==
  /\ DetectComputed
  /\ \E v \in {"Acme", "Bolt"} :
       /\ Cardinality(VendorRows(v)) = 3
       /\ \E k \in SpikeEntriesOfVendor(v) :
            /\ anomalies[k].total_amount = 121
            /\ anomalies[k].details = <<121, 200, 2>>
            /\ \E i \in VendorRows(v) : Cleaned[i].idx > anomalies[k].idx

\* a ledger line the cleaning step drops
Malformed(line) == CoercesToNaN(line.total_amount) \/ VendorIsNaN(line.vendor_name)

WithoutMalformed(lines) ==
  <<lines[1]>> \o SelectSeq(Tail(lines), LAMBDA l : ~Malformed(l))

\* C8: a row whose total_amount is not numeric or whose vendor_name is absent is never
\* flagged and changes nothing: the anomalies are those of the ledger without such rows
\* (same groups, same counts, same order, same trailing means).
C8_MalformedRowsTakeNoPart ==
  DetectComputed =>
    /\ \A k \in 1..Len(anomalies) : ~Malformed(DataRows(logLines)[anomalies[k].idx + 1])
    /\ to_json(anomalies) = to_json(FinalAnomalies(dropna(read_csv(WithoutMalformed(logLines)))))

\* a vendor's unparseable amount sits after the record that is flagged as its spike
C8_Witness ==
  /\ DetectComputed
  /\ \E k \in EntriesOfType(PriceSpike) :
       \E i \in 1..Len(DataRows(logLines)) :
         /\ i - 1 > anomalies[k].idx
         /\ DataRows(logLines)[i].vendor_name = anomalies[k].vendor_name
         /\ CoercesToNaN(DataRows(logLines)[i].total_amount)

OnlyVendor(lines, v) ==
  <<lines[1]>> \o SelectSeq(Tail(lines), LAMBDA l : l.vendor_name = v)

EntriesOfVendor(final, v) == SelectSeq(to_json(final), LAMBDA e : e.vendor_name = v)

\* C9: the anomalies reported for a vendor (duplicate flags, spike flag, the mean in its
\* details) are those of the ledger reduced to that vendor's records, so two ledgers
\* that agree on a vendor's records agree on its anomalies.
C9_VendorIsolation ==
  DetectComputed =>
    \A v \in {"Acme", "Bolt"} :
      EntriesOfVendor(anomalies, v)
        = to_json(FinalAnomalies(dropna(read_csv(OnlyVendor(logLines, v)))))

\* another vendor's record has the amount of a flagged record and is not flagged with it
C9_Witness ==
  /\ DetectComputed
  /\ \E k \in 1..Len(anomalies) : \E i \in 1..Len(Cleaned) :
       /\ Cleaned[i].vendor_name # anomalies[k].vendor_name
       /\ Cleaned[i].total_amount = anomalies[k].total_amount
       /\ Cleaned[i].idx \notin FlaggedIdx(Duplicate) \cup FlaggedIdx(PriceSpike)


(* ------------------- the write of an ingestion run ---------------------- *)
\* the header lines a log holds, by position
HeaderPositions(lines) == {i \in 1..Len(lines) : lines[i] = HeaderLine}

\* C11: a run writes the log at most once, only after the loop and only when something
\* was staged, with the header exactly when the file did not exist; hence, from a
\* missing or an empty log, a non-empty log starts with the one header line it holds.
C11_LogStartsWithItsOnlyHeader ==
  logLines # <<>> => HeaderPositions(logLines) = {1}

\* the part of C11 about the write itself: the log changes only in the step that ends
\* the loop, only when records were staged, by one append of all of them, and the
\* header is put in front of them exactly when the file did not exist
C11_OneWriteAfterTheLoop ==
  [][(logLines' # logLines \/ logExists' # logExists) =>
        /\ pc = "loop" /\ pdf_files = <<>> /\ pc' # "loop"
        /\ new_records # <<>>
        /\ logExists'
        /\ logLines' = logLines \o (IF logExists THEN <<>> ELSE <<HeaderLine>>) \o new_records]_vars

====
